---- MODULE Spec2Model ----
(***************************************************************************)
(* keep-exporter: the local/remote reconciliation of                      *)
(* src/keep_exporter/export.py.  One run of main() is: index the local    *)
(* directory, delete local-only files, then one loop iteration per remote *)
(* note, then the summary.  The disk is the only state that survives a    *)
(* run.                                                                    *)
(***************************************************************************)
EXTENDS Integers, Sequences, FiniteSets, TLC

(* ------------------------------ bounds -------------------------------- *)

\* largest dedupe index the allocator's loop may reach
MaxDedupe == 2
\* timestamps ("updated" values) are 1..MaxTime
MaxTime == 2
\* runs of main() in one behaviour
MaxRuns == 2

\* remote note identifiers
Ids == {"X", "Y"}
\* note titles as the remote has them; " " strips to the empty title
Titles == {"T", " "}
\* media identifiers, as dot-separated segments: "m1" and "m.2"
MediaIds == {<<"m1">>, <<"m", "2">>}
\* the media each remote note carries: X one without a dot, Y one with
MediaOf(id) == IF id = "X" THEN {<<"m1">>} ELSE {<<"m", "2">>}

(* ------------------------------ values -------------------------------- *)

\* LocalNote.path = None
NoPath == [dir |-> "", name |-> <<>>]
\* LocalNote.timestamp_updated = None
NoTime == -1
\* how far the local zone is behind UTC: a naive datetime is local time
UtcOffset == 5

\* faulty variant: the naive datetime is taken as UTC when it is recorded
ToTimestamp_Utc(dt) == dt

\* datetime.timestamp() of a naive datetime, as build_frontmatter records it
ToTimestamp(dt) == dt + UtcOffset
\* datetime.datetime.fromtimestamp(), as index_existing_files reads it back
FromTimestamp(ts) == ts - UtcOffset

\* the content of a note file written with the frontmatter header
NoteFile(id, ts) == [kind |-> "note", id |-> id, ts |-> ts]
\* a markdown file whose metadata holds no google_keep_id (or no metadata)
NoIdFile == [kind |-> "noid", id |-> "", ts |-> 0]
\* a markdown file with a google_keep_id and no timestamps.updated
NoTsFile(id) == [kind |-> "nots", id |-> id, ts |-> 0]
\* a markdown file whose metadata block is not valid YAML
BadYamlFile == [kind |-> "badyaml", id |-> "", ts |-> 0]
\* a markdown file that cannot be opened or read
UnreadableFile == [kind |-> "unreadable", id |-> "", ts |-> 0]
\* a media file
MediaFile == [kind |-> "media", id |-> "", ts |-> 0]

(* ------------------------------- paths -------------------------------- *)

\* title.strip()
Strip(title) == IF title = " " THEN "" ELSE title

\* the sanitized "<date> - <title>" stem of a note (one creation date and
\* one date format: a stem stands for the whole formatted string)
Stem(note) == IF Strip(note.title) = "" THEN "untitled" ELSE Strip(note.title)

Stems == {Stem([title |-> t]) : t \in Titles}

\* notepath / "<stem>.md"
CanonicalPath(stem) == [dir |-> "root", name |-> <<stem, "md">>]
\* notepath / "<stem>.<id>.<n>.md"
DedupePath(stem, id, n) == [dir |-> "root", name |-> <<stem, id, ToString(n), "md">>]
\* mediapath / note.id / "<media.id><extension>"
MediaPath(id, mid) == [dir |-> id, name |-> mid \o <<"jpg">>]

\* file.name.endswith(".md")
IsMarkdown(p) == Len(p.name) > 0 /\ p.name[Len(p.name)] = "md"

NotePaths ==
    {CanonicalPath(s) : s \in Stems}
        \cup {DedupePath(s, i, n) : s \in Stems, i \in Ids, n \in 1..MaxDedupe}
MediaPaths == {MediaPath(i, m) : i \in Ids, m \in MediaIds}

(* ------------------------------- state -------------------------------- *)

VARIABLES
    disk,           \* existing path -> file content
    remote,         \* keep_notes: id -> [title, updated, media]
    opts,           \* [header, delete_local, rename_local]
    pc,             \* "start", "indexed", "loop", "done", "crashed", "aborted"
    runs,           \* runs of main() started so far
    local_index,    \* id -> [path, timestamp_updated, local_media]
    scan_counts,    \* [keep_notes, unknown_notes, errors, media, skipped_files, warnings, last]
    todo,           \* remote ids the loop has not reached yet
    counters,       \* [skipped, updated, new, deleted_notes, deleted_media]
    disk0,          \* the disk when the run started
    log,            \* what the run did: [written, renamed, deleted, materialized, last]
    collided,       \* an earlier run's scan found an identifier in several files
    moved           \* the renames done in all the runs so far: <<id, from, to>>

vars == <<disk, remote, opts, pc, runs, local_index, scan_counts, todo, counters, disk0, log,
          collided, moved>>

(* ------------------------------ helpers ------------------------------- *)

EmptyMap == [x \in {} |-> x]

\* d[k] = v, as a dict assignment
Put(f, k, v) == [x \in DOMAIN f \cup {k} |-> IF x = k THEN v ELSE f[x]]

\* path.exists()
Exists(d, p) == p \in DOMAIN d

\* open(path, "wb+") and write
WriteFile(d, p, c) == Put(d, p, c)

\* path.unlink()
Unlink(d, p) == [q \in DOMAIN d \ {p} |-> d[q]]

\* path.rename(target): the file moves, replacing whatever target held
RenameFile(d, from, to) ==
    [q \in (DOMAIN d \ {from}) \cup {to} |-> IF q = to THEN d[from] ELSE d[q]]

(* ------------------------ index_existing_files ------------------------ *)

LocalNote(id) == [path |-> NoPath, timestamp_updated |-> NoTime, local_media |-> EmptyMap]

\* index.setdefault(google_keep_id, LocalNote(google_keep_id))
SetDefault(index, id) == IF id \in DOMAIN index THEN index ELSE Put(index, id, LocalNote(id))

\* faulty variant: the slice is [0:1], the name up to its first dot
MediaIdOfName_FirstSegment(name) == SubSeq(name, 1, IF Len(name) < 1 THEN Len(name) ELSE 1)

\* ".".join(file.name.split(".")[0:2])
MediaIdOfName(name) == SubSeq(name, 1, IF Len(name) < 2 THEN Len(name) ELSE 2)

ScanStart ==
    [index |-> EmptyMap, keep_notes |-> 0, unknown_notes |-> 0, errors |-> 0,
     media |-> 0, aborted |-> FALSE, warnings |-> 0, skipped_files |-> 0,
     last |-> EmptyMap]

\* the IOError handler of the scan
ScanIOError(st) == [st EXCEPT !.errors = 0, !.skipped_files = @ + 1]

\* frontmatter.load raising on a malformed metadata block
ScanBadYaml(st) == [st EXCEPT !.aborted = TRUE]

\* datetime.fromtimestamp(None) raising after the entry was registered
ScanNoTimestamp(st, p, c) ==
    [st EXCEPT !.warnings = IF c.id \in DOMAIN st.index /\ st.index[c.id].path # NoPath
                             THEN @ + 1 ELSE @,
               !.keep_notes = @ + 1,
               !.index = SetDefault(st.index, c.id),
               !.aborted = TRUE]

\* faulty variant: the entry keeps the path and timestamp of the first file
ScanNote_FirstWins(st, p, c) ==
    LET idx == SetDefault(st.index, c.id)
        had == c.id \in DOMAIN st.index /\ st.index[c.id].path # NoPath
    IN  [st EXCEPT !.warnings = IF had THEN @ + 1 ELSE @,
                   !.keep_notes = @ + 1,
                   !.last = Put(@, c.id, p),
                   !.index = IF had THEN idx
                             ELSE [idx EXCEPT ![c.id].timestamp_updated = FromTimestamp(c.ts),
                                              ![c.id].path = p]]

\* a markdown file with a google_keep_id and an updated timestamp; `last`
\* remembers, per identifier, the note file the loop saw last
ScanNote(st, p, c) ==
    LET idx == SetDefault(st.index, c.id)
    IN  [st EXCEPT !.warnings = IF c.id \in DOMAIN st.index /\ st.index[c.id].path # NoPath
                                 THEN @ + 1 ELSE @,
                   !.keep_notes = @ + 1,
                   !.last = Put(@, c.id, p),
                   !.index = [idx EXCEPT ![c.id].timestamp_updated = FromTimestamp(c.ts),
                                         ![c.id].path = p]]

\* the media branch: identity from the parent directory and the file name
ScanMedia(st, p) ==
    LET idx == SetDefault(st.index, p.dir)
        mid == MediaIdOfName(p.name)
    IN  [st EXCEPT !.media = @ + 1,
                   !.index = [idx EXCEPT ![p.dir].local_media = Put(@, mid, p)]]

\* one iteration of the scan loop on file p with content c
ScanFile(st, p, c) ==
    IF IsMarkdown(p)
    THEN CASE c.kind = "unreadable" -> ScanIOError(st)
           [] c.kind = "badyaml" -> ScanBadYaml(st)
           [] c.kind = "nots" -> ScanNoTimestamp(st, p, c)
           [] c.kind = "note" -> ScanNote(st, p, c)
           [] OTHER -> [st EXCEPT !.unknown_notes = @ + 1]
    ELSE ScanMedia(st, p)

\* the scans in progress after one more file: rglob may yield the files in
\* any order, so each scan goes on with any file it has not seen; a scan
\* that raised stays as it is
ScanAdvance(d, scans) ==
    {sc \in scans : sc.st.aborted \/ sc.rest = {}}
        \cup UNION {{[rest |-> sc.rest \ {p}, st |-> ScanFile(sc.st, p, d[p])] : p \in sc.rest} :
                       sc \in {s \in scans : ~s.st.aborted}}

RECURSIVE ScanFrom(_, _, _)
ScanFrom(d, scans, k) ==
    IF k = 0 THEN scans ELSE ScanFrom(d, ScanAdvance(d, scans), k - 1)

\* index_existing_files(directory): the outcomes of the scan loop over all
\* the orders in which rglob may yield the files of d
index_existing_files(d) ==
    {sc.st : sc \in ScanFrom(d, {[rest |-> DOMAIN d, st |-> ScanStart]}, Cardinality(DOMAIN d))}

(* ----------------------- build_note_unique_path ----------------------- *)

\* the while loop of the allocator from dedupe_index n on; NoPath when every
\* name up to MaxDedupe is taken (the loop itself is unbounded)
\* faulty variant: the first dedupe name is taken without looking at the disk
DedupeLoop_Unchecked(d, stem, id, n) == DedupePath(stem, id, n)

RECURSIVE DedupeLoop(_, _, _, _)
DedupeLoop(d, stem, id, n) ==
    IF n > MaxDedupe
    THEN NoPath
    ELSE IF Exists(d, DedupePath(stem, id, n))
         THEN DedupeLoop(d, stem, id, n + 1)
         ELSE DedupePath(stem, id, n)

\* local_index.get(note.id).path, None without an entry
IndexedPath(index, id) == IF id \in DOMAIN index THEN index[id].path ELSE NoPath

\* faulty variant: a file at the canonical name does not keep the note
\* where it is, the note goes on to a dedupe name
KeepsLocalPath_Bounce(d, local_path, target_path) ==
    local_path # NoPath /\ local_path = target_path

\* the "target exists, keep the existing file name" test of the allocator
KeepsLocalPath(d, local_path, target_path) ==
    local_path # NoPath /\ (local_path = target_path \/ Exists(d, target_path))

\* faulty variant: the canonical name is returned although a file has it
build_note_unique_path_NoDedupe(d, id, note, index) ==
    LET target_path == CanonicalPath(Stem(note))
        local_path == IndexedPath(index, id)
    IN  IF KeepsLocalPath(d, local_path, target_path) THEN local_path ELSE target_path

\* faulty variant: a note that has a file always gets its canonical name,
\* whether or not a file is there
build_note_unique_path_RenameOver(d, id, note, index) ==
    IF IndexedPath(index, id) # NoPath
    THEN CanonicalPath(Stem(note))
    ELSE IF Exists(d, CanonicalPath(Stem(note)))
         THEN DedupeLoop(d, Stem(note), id, 1)
         ELSE CanonicalPath(Stem(note))

\* faulty variant: the keep-the-existing-name rule is left out
build_note_unique_path_NoKeep(d, id, note, index) ==
    IF Exists(d, CanonicalPath(Stem(note)))
    THEN DedupeLoop(d, Stem(note), id, 1)
    ELSE CanonicalPath(Stem(note))

\* build_note_unique_path(notepath, note, date_format, local_index)
build_note_unique_path(d, id, note, index) ==
    LET target_path == CanonicalPath(Stem(note))
        local_path == IndexedPath(index, id)
    IN  IF KeepsLocalPath(d, local_path, target_path)
        THEN local_path
        ELSE IF Exists(d, target_path)
             THEN DedupeLoop(d, Stem(note), id, 1)
             ELSE target_path

(* --------------------------- try_rename_note -------------------------- *)

\* faulty variant: the target is returned whether or not the rename succeeded
try_rename_note_Blind(d, local_note, target_file, ok) ==
    IF local_note.path = NoPath \/ ~ok
    THEN [disk |-> d, path |-> target_file, attempted |-> local_note.path # NoPath]
    ELSE [disk |-> RenameFile(d, local_note.path, target_file),
          path |-> target_file, attempted |-> TRUE]

\* faulty variant: the old path is returned after a rename that succeeded
try_rename_note_StalePath(d, local_note, target_file, ok) ==
    IF local_note.path = NoPath
    THEN [disk |-> d, path |-> target_file, attempted |-> FALSE]
    ELSE IF ok
         THEN [disk |-> RenameFile(d, local_note.path, target_file),
               path |-> local_note.path, attempted |-> TRUE]
         ELSE [disk |-> d, path |-> local_note.path, attempted |-> TRUE]

\* try_rename_note(note, target_file): `ok` is whether path.rename succeeds;
\* the result is [disk, path], the disk afterwards and the returned path
try_rename_note(d, local_note, target_file, ok) ==
    IF local_note.path = NoPath
    THEN [disk |-> d, path |-> target_file, attempted |-> FALSE]
    ELSE IF ok
         THEN [disk |-> RenameFile(d, local_note.path, target_file),
               path |-> target_file, attempted |-> TRUE]
         ELSE [disk |-> d, path |-> local_note.path, attempted |-> TRUE]

(* ----------------------- delete_local_only_files ---------------------- *)

\* set(local_index.keys()).difference(set(keep_notes.keys()))
LocalOnlyNoteIds(index, keep_notes) == DOMAIN index \ DOMAIN keep_notes

\* the (note id, media id) pairs of the index
LocalMediaPairs(index) ==
    UNION {{<<i, m>> : m \in DOMAIN index[i].local_media} : i \in DOMAIN index}

\* the (note id, media id) pairs of the remote notes
KeepMediaPairs(keep_notes) ==
    UNION {{<<i, m>> : m \in keep_notes[i].media} : i \in DOMAIN keep_notes}

LocalOnlyMedia(index, keep_notes) == LocalMediaPairs(index) \ KeepMediaPairs(keep_notes)

\* the note files the deletion loop unlinks
LocalOnlyNotePaths(index, keep_notes) ==
    {index[i].path : i \in {j \in LocalOnlyNoteIds(index, keep_notes) : index[j].path # NoPath}}

\* the media files the deletion loop unlinks
LocalOnlyMediaPaths(index, keep_notes) ==
    {index[pr[1]].local_media[pr[2]] : pr \in LocalOnlyMedia(index, keep_notes)}

\* faulty variant: the delete_local option is not consulted
DeletedPaths_Always(index, keep_notes, delete_local) ==
    LocalOnlyNotePaths(index, keep_notes) \cup LocalOnlyMediaPaths(index, keep_notes)

\* what is removed from the disk: nothing unless delete_local
DeletedPaths(index, keep_notes, delete_local) ==
    IF delete_local
    THEN LocalOnlyNotePaths(index, keep_notes) \cup LocalOnlyMediaPaths(index, keep_notes)
    ELSE {}

\* faulty variant: only the identifiers with a note file are counted
DeletedNotesCount_WithPath(index, keep_notes, delete_local) ==
    IF delete_local THEN Cardinality(LocalOnlyNotePaths(index, keep_notes)) ELSE 0

\* the deleted_notes counter: one per local-only identifier, path or not
DeletedNotesCount(index, keep_notes, delete_local) ==
    IF delete_local THEN Cardinality(LocalOnlyNoteIds(index, keep_notes)) ELSE 0

\* the deleted_media counter
DeletedMediaCount(index, keep_notes, delete_local) ==
    IF delete_local THEN Cardinality(LocalOnlyMedia(index, keep_notes)) ELSE 0

\* the count printed in the "media files exist locally" line (0: no line)
ReportedMediaCount(index, keep_notes, delete_local) ==
    IF LocalOnlyMedia(index, keep_notes) # {} /\ ~delete_local
    THEN Cardinality(LocalOnlyNoteIds(index, keep_notes))
    ELSE 0

\* delete_local_only_files(local_index, keep_notes, delete_local)
delete_local_only_files(d, index, keep_notes, delete_local) ==
    LET gone == DeletedPaths(index, keep_notes, delete_local)
    IN  [disk |-> [q \in DOMAIN d \ gone |-> d[q]],
         removed |-> gone,
         deleted_notes |-> DeletedNotesCount(index, keep_notes, delete_local),
         deleted_media |-> DeletedMediaCount(index, keep_notes, delete_local),
         reported_media |-> ReportedMediaCount(index, keep_notes, delete_local)]

(* ---------------------------- download_media -------------------------- *)

\* the media files of a note after download_media
MediaFilesOf(id, note) == {MediaPath(id, m) : m \in note.media}

\* download_media: every media file of the note exists afterwards
download_media(d, id, note) ==
    [q \in DOMAIN d \cup MediaFilesOf(id, note) |->
        IF q \in MediaFilesOf(id, note) THEN MediaFile ELSE d[q]]

\* what the run writes to the note's file: with the frontmatter header the
\* identifier and the updated timestamp, without it the markdown alone
NoteContent(id, note, header) ==
    IF header THEN NoteFile(id, ToTimestamp(note.updated)) ELSE NoIdFile

(* -------------------------------- main -------------------------------- *)

NoCounters == [skipped |-> 0, updated |-> 0, new |-> 0, deleted_notes |-> 0, deleted_media |-> 0]

NoLast ==
    [id |-> "", alloc |-> NoPath, local_path |-> NoPath, attempted |-> FALSE,
     ok |-> FALSE, path |-> NoPath, outcome |-> "", existed |-> FALSE]

NoLog ==
    [written |-> {}, renamed |-> {}, deleted |-> {}, materialized |-> {},
     reported_media |-> 0, last |-> NoLast]

NoScan == [keep_notes |-> 0, unknown_notes |-> 0, errors |-> 0, media |-> 0,
           warnings |-> 0, skipped_files |-> 0, last |-> EmptyMap]

\* main up to the remote fetch: a new process indexes the directory; an
\* exception escaping index_existing_files ends the process
IndexLocal ==
    /\ pc \in {"start", "done"}
    /\ runs < MaxRuns
    /\ \E st \in index_existing_files(disk) :
              /\ pc' = IF st.aborted THEN "crashed" ELSE "indexed"
              /\ local_index' = IF st.aborted THEN EmptyMap ELSE st.index
              /\ scan_counts' = IF st.aborted THEN NoScan ELSE
                                [keep_notes |-> st.keep_notes,
                                 unknown_notes |-> st.unknown_notes,
                                 errors |-> st.errors, media |-> st.media,
                                 warnings |-> st.warnings,
                                 skipped_files |-> st.skipped_files,
                                 last |-> st.last]
    /\ runs' = runs + 1
    /\ disk0' = disk
    /\ todo' = {}
    /\ counters' = NoCounters
    /\ log' = NoLog
    /\ collided' = (collided \/ scan_counts.warnings > 0)
    /\ UNCHANGED <<disk, remote, opts, moved>>

\* main: the call of delete_local_only_files, then the loop begins
DeleteLocalOnly ==
    /\ pc = "indexed"
    /\ LET r == delete_local_only_files(disk, local_index, remote, opts.delete_local)
       IN  /\ disk' = r.disk
           /\ counters' = [counters EXCEPT !.deleted_notes = r.deleted_notes,
                                           !.deleted_media = r.deleted_media]
           /\ log' = [log EXCEPT !.deleted = r.removed, !.reported_media = r.reported_media]
    /\ pc' = "loop"
    /\ todo' = DOMAIN remote
    /\ UNCHANGED <<remote, opts, runs, local_index, scan_counts, disk0, collided, moved>>

\* faulty variant: the note counts as unchanged only when the local copy is newer
IsUnchanged_Newer(local_note, note) == local_note.timestamp_updated > note.updated

\* faulty variant: a note whose file is not at its canonical name is not
\* taken as unchanged
IsUnchanged_AtCanonical(local_note, note) ==
    /\ local_note.timestamp_updated = note.updated
    /\ local_note.path = CanonicalPath(Stem(note))

\* the skip test: local_note.timestamp_updated == note.timestamps.updated
IsUnchanged(local_note, note) == local_note.timestamp_updated = note.updated

\* faulty variant: the rename_local option is not consulted
WantsRename_Always(rename_local, local_path, target_path) ==
    local_path # NoPath /\ local_path # target_path

\* whether the loop body calls try_rename_note
WantsRename(rename_local, local_path, target_path) ==
    local_path # NoPath /\ rename_local /\ local_path # target_path

\* faulty variant: a new note falls through to the comparison of the updated
\* values and is counted as updated too
CountNote_NewFallsThrough(c, seen, skip) ==
    [c EXCEPT !.new = IF seen THEN @ ELSE @ + 1,
              !.skipped = IF skip THEN @ + 1 ELSE @,
              !.updated = IF skip THEN @ ELSE @ + 1]

\* the counters after one iteration: new_notes for a note without an index
\* entry, otherwise skipped_notes or updated_notes
CountNote(c, seen, skip) ==
    [c EXCEPT !.new = IF seen THEN @ ELSE @ + 1,
              !.skipped = IF skip THEN @ + 1 ELSE @,
              !.updated = IF seen /\ ~skip THEN @ + 1 ELSE @]

\* one iteration of the loop over keep_notes.values(), for note id; ok is
\* whether a rename, if one is attempted, succeeds
ProcessNote(id, ok) ==
    /\ pc = "loop"
    /\ id \in todo
    /\ LET note == remote[id]
           seen == id \in DOMAIN local_index
           alloc == build_note_unique_path(disk, id, note, local_index)
           local_path == IndexedPath(local_index, id)
           renames == WantsRename(opts.rename_local, local_path, alloc)
           rn == IF renames
                 THEN try_rename_note(disk, local_index[id], alloc, ok)
                 ELSE [disk |-> disk,
                       path |-> IF local_path # NoPath THEN local_path ELSE alloc,
                       attempted |-> FALSE]
           skip == seen /\ IsUnchanged(local_index[id], note)
       IN  /\ alloc # NoPath
           /\ renames \/ ok
           /\ disk' = IF skip
                      THEN rn.disk
                      ELSE WriteFile(download_media(rn.disk, id, note), rn.path,
                                     NoteContent(id, note, opts.header))
           /\ counters' = CountNote(counters, seen, skip)
           /\ log' = [log EXCEPT
                        !.written = IF skip THEN @ ELSE @ \cup {rn.path},
                        !.materialized = IF skip THEN @ ELSE @ \cup {id},
                        !.renamed = IF rn.attempted /\ ok
                                    THEN @ \cup {<<local_path, alloc>>} ELSE @,
                        !.last = [id |-> id, alloc |-> alloc, local_path |-> local_path,
                                  attempted |-> rn.attempted, ok |-> ok, path |-> rn.path,
                                  outcome |-> IF skip THEN "skipped"
                                              ELSE IF seen THEN "updated" ELSE "new",
                                  existed |-> Exists(disk, alloc)]]
    /\ moved' = IF WantsRename(opts.rename_local, IndexedPath(local_index, id),
                               build_note_unique_path(disk, id, remote[id], local_index)) /\ ok
                THEN moved \cup {<<id, IndexedPath(local_index, id),
                                   build_note_unique_path(disk, id, remote[id], local_index)>>}
                ELSE moved
    /\ todo' = todo \ {id}
    /\ UNCHANGED <<remote, opts, pc, runs, local_index, scan_counts, disk0, collided>>

\* one iteration of the loop that raises while the note's content is
\* materialized: download_media raises (at = "download", nothing stored for
\* the note) or opening the target file raises (at = "write", the media
\* stored).  Nothing in main catches it: the process ends in the loop, after
\* the rename and the counter increments of the iteration
ProcessNoteFails(id, at) ==
    /\ pc = "loop"
    /\ id \in todo
    /\ LET note == remote[id]
           seen == id \in DOMAIN local_index
           alloc == build_note_unique_path(disk, id, note, local_index)
           local_path == IndexedPath(local_index, id)
           renames == WantsRename(opts.rename_local, local_path, alloc)
           rn == IF renames
                 THEN try_rename_note(disk, local_index[id], alloc, TRUE)
                 ELSE [disk |-> disk, path |-> alloc, attempted |-> FALSE]
           skip == seen /\ IsUnchanged(local_index[id], note)
       IN  /\ alloc # NoPath
           /\ ~skip
           /\ disk' = IF at = "download" THEN rn.disk ELSE download_media(rn.disk, id, note)
           /\ counters' = CountNote(counters, seen, FALSE)
    /\ moved' = IF WantsRename(opts.rename_local, IndexedPath(local_index, id),
                               build_note_unique_path(disk, id, remote[id], local_index))
                THEN moved \cup {<<id, IndexedPath(local_index, id),
                                   build_note_unique_path(disk, id, remote[id], local_index)>>}
                ELSE moved
    /\ pc' = "aborted"
    /\ UNCHANGED <<remote, opts, runs, local_index, scan_counts, todo, disk0, log, collided>>

\* the loop is over: the summary lines
Finish ==
    /\ pc = "loop"
    /\ todo = {}
    /\ pc' = "done"
    /\ UNCHANGED <<disk, remote, opts, runs, local_index, scan_counts, todo, counters,
                   disk0, log, collided, moved>>

(* ------------------------------- Init --------------------------------- *)

\* what a markdown file found in the directory may hold
DamagedContents == {NoTsFile(i) : i \in Ids} \cup {BadYamlFile, UnreadableFile}
InitNoteContents ==
    {NoteFile(i, ToTimestamp(t)) : i \in Ids, t \in 1..MaxTime}
        \cup {NoIdFile} \cup DamagedContents

\* where a markdown file may be before the first run: at a canonical name
\* or at a first dedupe name
InitNotePaths ==
    {CanonicalPath(s) : s \in Stems} \cup {DedupePath(s, i, 1) : s \in Stems, i \in Ids}

InitContents(p) == IF IsMarkdown(p) THEN InitNoteContents ELSE {MediaFile}

\* the directories a first run may find: no file, one file or two files, at
\* most one of them a media file and at most one a damaged markdown file
InitDisks ==
    UNION {{d \in [P -> InitNoteContents \cup {MediaFile}] :
                /\ \A p \in P : d[p] \in InitContents(p)
                /\ Cardinality({p \in P : d[p] \in DamagedContents}) <= 1} :
           P \in {Q \in SUBSET (InitNotePaths \cup MediaPaths) :
                     /\ Cardinality(Q) <= 2
                     /\ Cardinality(Q \cap MediaPaths) <= 1}}

\* the remote collections: every note was last updated at MaxTime
RemoteNotes(id) == [title : Titles, updated : {MaxTime}, media : {MediaOf(id)}]
InitRemotes ==
    UNION {{r \in [R -> UNION {RemoteNotes(i) : i \in Ids}] :
                \A i \in R : r[i] \in RemoteNotes(i)} : R \in SUBSET Ids}

Init ==
    /\ disk \in InitDisks
    /\ remote \in InitRemotes
    /\ opts \in [header : BOOLEAN, delete_local : BOOLEAN, rename_local : BOOLEAN]
    /\ pc = "start"
    /\ runs = 0
    /\ local_index = EmptyMap
    /\ scan_counts = NoScan
    /\ todo = {}
    /\ counters = NoCounters
    /\ disk0 = disk
    /\ log = NoLog
    /\ collided = FALSE
    /\ moved = {}

Next ==
    \/ IndexLocal
    \/ DeleteLocalOnly
    \/ \E id \in Ids, ok \in BOOLEAN : ProcessNote(id, ok)
    \/ \E id \in Ids, at \in {"download", "write"} : ProcessNoteFails(id, at)
    \/ Finish

Spec == Init /\ [][Next]_vars

(* ------------------------------- claims ------------------------------- *)

\* the run is past the deletion step
InLoop == pc \in {"loop", "done"}

\* the step is the loop iteration of note id
Processed(id) == pc = "loop" /\ id \in todo /\ todo' = todo \ {id}

MarkdownOf(d) == {p \in DOMAIN d : IsMarkdown(p)}
MediaOn(d) == {p \in DOMAIN d : ~IsMarkdown(p)}

\* C2: the path the allocator returns for a remote note about to be
\* processed is the note's own indexed path or a path that is not on disk
C2_NoDestructiveRename ==
    pc = "loop" =>
        \A id \in todo :
            LET p == build_note_unique_path(disk, id, remote[id], local_index)
            IN  p # NoPath =>
                    \/ p = IndexedPath(local_index, id)
                    \/ ~Exists(disk, p)

\* C2 witness: the canonical name and the first dedupe name are both taken
\* by other files, and the allocator answers with the second dedupe name
C2_Witness ==
    /\ pc = "loop"
    /\ \E id \in todo :
          /\ Exists(disk, CanonicalPath(Stem(remote[id])))
          /\ Exists(disk, DedupePath(Stem(remote[id]), id, 1))
          /\ build_note_unique_path(disk, id, remote[id], local_index)
                = DedupePath(Stem(remote[id]), id, 2)

\* C3: the loop iteration of a note whose indexed updated value equals the
\* remote one counts it as skipped, materializes nothing and writes nothing:
\* the disk changes at most by a rename of the note's file
C3_TimestampSkip ==
    [][\A id \in Ids :
          (/\ Processed(id)
           /\ id \in DOMAIN local_index
           /\ local_index[id].timestamp_updated = remote[id].updated)
          => /\ counters' = [counters EXCEPT !.skipped = @ + 1]
             /\ log'.materialized = log.materialized
             /\ log'.written = log.written
             /\ MediaOn(disk') = MediaOn(disk)
             /\ \/ disk' = disk
                \/ /\ ~Exists(disk, log'.last.alloc)
                   /\ disk' = RenameFile(disk, local_index[id].path, log'.last.alloc)]_vars

\* C3 witness: a note was skipped and another was written in the same run
C3_Witness ==
    /\ pc = "done"
    /\ counters.skipped = 1
    /\ counters.updated = 1
    /\ log.last.outcome = "skipped"

\* C5: with rename-local disabled no rename happens and every remote note
\* with an indexed path still has its file at that path, holding what it
\* held or what this run wrote for that note
C5_RenameGating ==
    (InLoop /\ ~opts.rename_local) =>
        /\ log.renamed = {}
        /\ ~log.last.attempted
        /\ \A id \in DOMAIN remote \cap DOMAIN local_index :
              LET p == local_index[id].path
              IN  p # NoPath =>
                    /\ Exists(disk, p)
                    /\ disk[p] \in {disk0[p], NoteContent(id, remote[id], opts.header)}
                    /\ (id \in log.materialized => p \in log.written)

\* C5 witness: a note whose file is not at its canonical name, the canonical
\* name free, was rewritten where it was
C5_Witness ==
    /\ pc = "done"
    /\ ~opts.rename_local
    /\ \E id \in DOMAIN remote \cap DOMAIN local_index :
          /\ local_index[id].path # NoPath
          /\ local_index[id].path # CanonicalPath(Stem(remote[id]))
          /\ ~Exists(disk, CanonicalPath(Stem(remote[id])))
          /\ local_index[id].path \in log.written

\* C6: with delete-local disabled the deletion step removes nothing and
\* returns (0, 0), and every local-only note file and media file of the
\* index is still on disk, unchanged, for the rest of the run
C6_DeletionGating ==
    (InLoop /\ ~opts.delete_local) =>
        /\ log.deleted = {}
        /\ counters.deleted_notes = 0
        /\ counters.deleted_media = 0
        /\ \A p \in LocalOnlyNotePaths(local_index, remote)
                      \cup LocalOnlyMediaPaths(local_index, remote) :
              Exists(disk, p) /\ disk[p] = disk0[p]

\* C6 witness: a run ended with an orphan note file and an orphan media file
C6_Witness ==
    /\ pc = "done"
    /\ ~opts.delete_local
    /\ LocalOnlyNotePaths(local_index, remote) # {}
    /\ \E pr \in LocalOnlyMedia(local_index, remote) : pr[1] \notin DOMAIN remote
    /\ DOMAIN remote # {}

\* C4: the loop iteration of a note with no index entry writes the note to a
\* path that was not on disk (so to none written earlier in the run): the
\* canonical name when that is free, otherwise "<stem>.<id>.<n>" with n the
\* smallest index from 1 whose name is free
C4_Uniqueness ==
    [][\A id \in Ids :
          (Processed(id) /\ id \notin DOMAIN local_index)
          => LET stem == Stem(remote[id])
                 p == log'.last.path
             IN  /\ log'.written = log.written \cup {p}
                 /\ p \notin log.written
                 /\ ~Exists(disk, p)
                 /\ Exists(disk', p)
                 /\ disk'[p] = NoteContent(id, remote[id], opts.header)
                 /\ IF ~Exists(disk, CanonicalPath(stem))
                    THEN p = CanonicalPath(stem)
                    ELSE \E n \in 1..MaxDedupe :
                            /\ p = DedupePath(stem, id, n)
                            /\ \A k \in 1..(n - 1) : Exists(disk, DedupePath(stem, id, k))]_vars

\* C4 witness: two new notes with the same stem in an empty directory ended
\* at "T.md" and "T.Y.1.md"
C4_Witness ==
    /\ pc = "done"
    /\ DOMAIN disk0 = {}
    /\ log.last.id = "Y"
    /\ log.written = {CanonicalPath("T"), DedupePath("T", "Y", 1)}

\* C8: try_rename_note on any indexed note and target: without a prior path
\* it returns the target and leaves the disk alone; a rename that succeeds
\* leaves the file at the target, which is returned; one that fails leaves
\* the disk alone and returns the original path.  In the loop the returned
\* path is where the note's file is
C8_TryRename ==
    /\ pc = "indexed" =>
          \A id \in DOMAIN local_index, target \in NotePaths, ok \in BOOLEAN :
              LET from == local_index[id].path
                  r == try_rename_note(disk, local_index[id], target, ok)
              IN  /\ from = NoPath => r.disk = disk /\ r.path = target /\ ~r.attempted
                  /\ (from # NoPath /\ ok) =>
                        /\ r.path = target
                        /\ Exists(r.disk, target)
                        /\ r.disk[target] = disk[from]
                        /\ (target # from => ~Exists(r.disk, from))
                  /\ (from # NoPath /\ ~ok) =>
                        r.path = from /\ r.disk = disk /\ Exists(disk, from)
    /\ (InLoop /\ log.last.id # "") =>
          /\ Exists(disk, log.last.path)
          /\ log.last.attempted =>
                IF log.last.ok
                THEN /\ log.last.path = log.last.alloc
                     /\ ~Exists(disk, log.last.local_path)
                ELSE /\ log.last.path = log.last.local_path
                     /\ ~Exists(disk, log.last.alloc)

\* C8 witness: a rename failed and the note was then rewritten at its
\* original path
C8_Witness ==
    /\ InLoop
    /\ log.last.attempted
    /\ ~log.last.ok
    /\ log.last.outcome = "updated"
    /\ log.last.local_path \in log.written

\* C10: with delete-local enabled the deletion step unlinks the indexed note
\* file of every local-only identifier that has one and no other markdown
\* file, none of a remote identifier, and deleted_notes is the number of
\* local-only identifiers
C10_DeleteLocalOnly ==
    (InLoop /\ opts.delete_local) =>
        /\ \A id \in LocalOnlyNoteIds(local_index, remote) :
              local_index[id].path # NoPath => local_index[id].path \in log.deleted
        /\ \A id \in DOMAIN local_index \cap DOMAIN remote :
              local_index[id].path \notin log.deleted
        /\ {p \in log.deleted : IsMarkdown(p)} = LocalOnlyNotePaths(local_index, remote)
        /\ counters.deleted_notes = Cardinality(LocalOnlyNoteIds(local_index, remote))
        /\ log.last.id = "" => \A p \in log.deleted : Exists(disk0, p) /\ ~Exists(disk, p)

\* C10 witness: one local-only identifier with a note file, one with media
\* only; one file deleted for two identifiers counted
C10_Witness ==
    /\ pc = "done"
    /\ opts.delete_local
    /\ counters.deleted_notes = 2
    /\ Cardinality(LocalOnlyNotePaths(local_index, remote)) = 1

\* C7: the scan never aborts: whatever the files hold, the run gets an index,
\* a file whose metadata cannot be read or parsed is not in it, and every
\* other note file's identifier and every media file is
C7_ScanNeverAborts ==
    /\ pc # "crashed"
    /\ pc = "indexed" =>
          /\ \A id \in DOMAIN local_index :
                local_index[id].path # NoPath => disk[local_index[id].path].kind = "note"
          /\ \A p \in MarkdownOf(disk) :
                disk[p].kind = "note" =>
                    /\ disk[p].id \in DOMAIN local_index
                    /\ local_index[disk[p].id].path # NoPath
          /\ \A p \in MediaOn(disk) :
                /\ p.dir \in DOMAIN local_index
                /\ \E m \in DOMAIN local_index[p.dir].local_media :
                      local_index[p.dir].local_media[m] = p

\* the media round trip for the media identifiers in M: a media file at
\* media/<noteId>/<mediaId>.jpg when the run starts is indexed under
\* (noteId, mediaId), and when a remote note still refers to it, it is not
\* local-only and not deleted
MediaRoundTrip(M) ==
    pc \in {"indexed", "loop", "done"} =>
        \A id \in Ids, m \in M :
            Exists(disk0, MediaPath(id, m)) =>
                /\ id \in DOMAIN local_index
                /\ m \in DOMAIN local_index[id].local_media
                /\ local_index[id].local_media[m] = MediaPath(id, m)
                /\ (id \in DOMAIN remote /\ m \in remote[id].media) =>
                      /\ <<id, m>> \notin LocalOnlyMedia(local_index, remote)
                      /\ MediaPath(id, m) \notin log.deleted

UnmatchedRemoteMedia ==
    {MediaPath(id, m) : id \in DOMAIN remote, m \in {mm \in MediaIds : Len(mm) # 2}}

C11_FailureIsolation == pc # "aborted"

\* the renames of note id in all the runs so far
MovesOf(id) == {m \in moved : m[1] = id}

\* C12: over repeated runs with the remote set fixed no note's file is
\* renamed more than once, so the renames stop, and no note is renamed to a
\* name it was renamed away from
C12_NoOscillation ==
    \A id \in Ids :
        /\ Cardinality(MovesOf(id)) <= 1
        /\ \A m1, m2 \in MovesOf(id) : m2[3] # m1[2]
        /\ \A m \in MovesOf(id) : m[3] = CanonicalPath(Stem(remote[id]))

\* C12 witness: with rename-local enabled the first run renamed a note, and
\* a second run ended without a rename although a note is still not at its
\* canonical name
C12_Witness ==
    /\ pc = "done"
    /\ runs = 2
    /\ opts.rename_local
    /\ moved # {}
    /\ log.renamed = {}
    /\ \E id \in DOMAIN remote :
          /\ IndexedPath(local_index, id) # NoPath
          /\ IndexedPath(local_index, id) # CanonicalPath(Stem(remote[id]))

\* C13: the loop iteration of a note with an indexed path that is its
\* canonical name, or whose canonical name is on disk, gets that path back
\* from the allocator; no rename is attempted, also with rename-local
\* enabled, and the file stays where it is
C13_KeepExistingPath ==
    [][\A id \in Ids :
          (/\ Processed(id)
           /\ IndexedPath(local_index, id) # NoPath
           /\ \/ IndexedPath(local_index, id) = CanonicalPath(Stem(remote[id]))
              \/ Exists(disk, CanonicalPath(Stem(remote[id]))))
          => /\ build_note_unique_path(disk, id, remote[id], local_index)
                   = IndexedPath(local_index, id)
             /\ log'.last.alloc = IndexedPath(local_index, id)
             /\ log'.last.path = IndexedPath(local_index, id)
             /\ ~log'.last.attempted
             /\ log'.renamed = log.renamed
             /\ moved' = moved
             /\ Exists(disk', IndexedPath(local_index, id))
             /\ MarkdownOf(disk') = MarkdownOf(disk)]_vars

\* C13 witness: with rename-local enabled a note away from its canonical
\* name, which another file has, was updated where it was
C13_Witness ==
    /\ InLoop
    /\ opts.rename_local
    /\ log.last.id # ""
    /\ log.last.local_path # NoPath
    /\ log.last.local_path # CanonicalPath(Stem(remote[log.last.id]))
    /\ Exists(disk0, CanonicalPath(Stem(remote[log.last.id])))
    /\ log.last.existed
    /\ ~log.last.attempted
    /\ log.last.outcome = "updated"
    /\ log.last.path = log.last.local_path

\* C14: the loop iteration of a note with an indexed path whose recorded
\* updated value differs from the remote one materializes the content, writes
\* it to one file, creates no further note file and counts the note as
\* updated; with rename-local disabled, or the note at its canonical name,
\* the file written is the indexed path and no note file appears or goes
C14_UpdateInPlace ==
    [][\A id \in Ids :
          (/\ Processed(id)
           /\ IndexedPath(local_index, id) # NoPath
           /\ local_index[id].timestamp_updated # remote[id].updated)
          => LET p == IndexedPath(local_index, id)
                 q == log'.last.path
             IN  /\ log'.materialized = log.materialized \cup {id}
                 /\ log'.written = log.written \cup {q}
                 /\ Exists(disk', q)
                 /\ disk'[q] = NoteContent(id, remote[id], opts.header)
                 /\ \A f \in MarkdownOf(disk') \ {q} :
                       \E g \in MarkdownOf(disk) : disk[g] = disk'[f] /\ (g = f \/ g = p)
                 /\ Cardinality(MarkdownOf(disk')) = Cardinality(MarkdownOf(disk))
                 /\ counters' = [counters EXCEPT !.updated = @ + 1]
                 /\ (~opts.rename_local \/ p = CanonicalPath(Stem(remote[id]))) =>
                       /\ q = p
                       /\ MarkdownOf(disk') = MarkdownOf(disk)
                       /\ \A f \in MarkdownOf(disk) \ {p} : disk'[f] = disk[f]]_vars

\* C14 witness: a note recorded with an older updated value was rewritten at
\* its indexed path, which is not its canonical name
C14_Witness ==
    /\ InLoop
    /\ log.last.outcome = "updated"
    /\ log.last.local_path # NoPath
    /\ log.last.local_path # CanonicalPath(Stem(remote[log.last.id]))
    /\ ~opts.rename_local
    /\ log.last.local_path \in log.written
    /\ disk[log.last.local_path] # disk0[log.last.local_path]

\* C15: with rename-local enabled, the loop iteration of a note whose
\* recorded updated value equals the remote one and whose canonical name is
\* free and not its own attempts the rename, which moves the file to the
\* canonical name unless it fails; the note is counted as skipped, not as
\* updated, and nothing is materialized or written
C15_PureRename ==
    [][\A id \in Ids :
          (/\ Processed(id)
           /\ opts.rename_local
           /\ IndexedPath(local_index, id) # NoPath
           /\ IndexedPath(local_index, id) # CanonicalPath(Stem(remote[id]))
           /\ ~Exists(disk, CanonicalPath(Stem(remote[id])))
           /\ local_index[id].timestamp_updated = remote[id].updated)
          => LET p == IndexedPath(local_index, id)
                 c == CanonicalPath(Stem(remote[id]))
             IN  /\ log'.last.attempted
                 /\ log'.last.alloc = c
                 /\ IF log'.last.ok
                    THEN /\ disk' = RenameFile(disk, p, c)
                         /\ log'.renamed = log.renamed \cup {<<p, c>>}
                    ELSE /\ disk' = disk
                         /\ log'.renamed = log.renamed
                 /\ counters' = [counters EXCEPT !.skipped = @ + 1]
                 /\ log'.last.outcome = "skipped"
                 /\ log'.materialized = log.materialized
                 /\ log'.written = log.written]_vars

\* C15 witness: a note was renamed to its canonical name and counted as
\* skipped, with no note updated in the run
C15_Witness ==
    /\ InLoop
    /\ opts.rename_local
    /\ log.last.attempted
    /\ log.last.ok
    /\ log.last.outcome = "skipped"
    /\ counters.updated = 0
    /\ counters.skipped >= 1
    /\ Exists(disk, log.last.alloc)
    /\ ~Exists(disk, log.last.local_path)

\* the note files of directory d that carry identifier id
CarriersOf(d, id) == {p \in MarkdownOf(d) : d[p].kind = "note" /\ d[p].id = id}

\* one warning for every note file of an identifier after the first
RECURSIVE ExpectedWarnings(_, _)
ExpectedWarnings(d, ids) ==
    IF ids = {} THEN 0
    ELSE LET id == CHOOSE i \in ids : TRUE
             n == Cardinality(CarriersOf(d, id))
         IN  (IF n > 1 THEN n - 1 ELSE 0) + ExpectedWarnings(d, ids \ {id})

\* what C16 says of a scan of d that gave index, last and warnings
DuplicateIdentity(d, index, last, warnings) ==
    /\ \A id \in Ids :
          CarriersOf(d, id) # {} =>
              /\ id \in DOMAIN index
              /\ index[id].path \in CarriersOf(d, id)
              /\ index[id].path = last[id]
              /\ index[id].timestamp_updated = FromTimestamp(d[index[id].path].ts)
    /\ warnings = ExpectedWarnings(d, Ids)

\* directory d with one more note file of identifier "X"
WithThirdFile(d) == Put(d, DedupePath("T", "X", MaxDedupe + 1), NoteFile("X", ToTimestamp(1)))

\* C16: after a scan that found several note files with one identifier, in
\* whatever order, the index has one entry for the identifier, with the path
\* and the updated value of the file scanned last, and one warning was given
\* for every such file but the first; also with a third file of the identifier
C16_DuplicateIdentity ==
    /\ pc = "indexed" =>
          DuplicateIdentity(disk, local_index, scan_counts.last, scan_counts.warnings)
    /\ pc = "start" =>
          \A st \in index_existing_files(WithThirdFile(disk)) :
              ~st.aborted =>
                  DuplicateIdentity(WithThirdFile(disk), st.index, st.last, st.warnings)

\* C16 witness: of two files with one identifier the scan ended on the one
\* with the older updated value, which is the entry's, and warned once
C16_Witness ==
    /\ pc = "indexed"
    /\ scan_counts.warnings = 1
    /\ \E id \in DOMAIN local_index :
          \E q \in CarriersOf(disk, id) :
              /\ q # local_index[id].path
              /\ local_index[id].path # NoPath
              /\ disk[local_index[id].path].ts < disk[q].ts
              /\ local_index[id].timestamp_updated < FromTimestamp(disk[q].ts)

\* C17: the error count of the index summary is the number of note files the
\* scan skipped because they could not be read or parsed
C17_ScanErrorCount ==
    pc \in {"indexed", "loop", "done"} => scan_counts.errors = scan_counts.skipped_files

\* C18: with delete-local disabled and local-only media, the count in the
\* media report line is the number of local-only (noteId, mediaId) pairs
C18_OrphanMediaReport ==
    (InLoop /\ ~opts.delete_local /\ LocalOnlyMedia(local_index, remote) # {}) =>
        log.reported_media = Cardinality(LocalOnlyMedia(local_index, remote))

\* C19: at every point of the loop new + updated + skipped is the number of
\* remote notes processed so far, each counter having grown by at most the
\* notes processed, and at the summary the sum is the number of remote notes
C19_CounterPartition ==
    InLoop =>
        /\ counters.new + counters.updated + counters.skipped
              = Cardinality(DOMAIN remote \ todo)
        /\ pc = "done" =>
              counters.new + counters.updated + counters.skipped
                 = Cardinality(DOMAIN remote)
        /\ counters.new = Cardinality({id \in DOMAIN remote \ todo : id \notin DOMAIN local_index})

\* C19 witness: a run of two remote notes ended with one new and one skipped
C19_Witness ==
    /\ pc = "done"
    /\ Cardinality(DOMAIN remote) = 2
    /\ counters.new = 1
    /\ counters.skipped = 1
    /\ counters.updated = 0

\* C20: a remote note is counted as new exactly when no note file with its
\* identifier was indexed when the run started, so also when the index has
\* an entry for it that comes from media files only
C20_NewVersusUpdated ==
    (InLoop /\ log.last.id # "") =>
        (log.last.outcome = "new" <=> log.last.local_path = NoPath)

\* C21: in the loop, whatever the earlier iterations created or renamed, a
\* rename goes to a path that has no file, a note is written to a path that
\* has no file or to the note's own indexed file (where the rename just put
\* it, if it was renamed), and every other markdown file, unknown or of
\* another identifier, stays where it is with what it holds
C21_NoClobbering ==
    [][/\ pc = "loop" =>
             \A f \in MarkdownOf(disk) :
                 (~Exists(disk', f) \/ disk'[f] # disk[f]) =>
                     \E id \in todo : f = IndexedPath(local_index, id)
       /\ \A id \in Ids :
             Processed(id) =>
                 LET p == IndexedPath(local_index, id)
                     q == log'.last.path
                 IN  /\ (log'.renamed # log.renamed \/ moved' # moved) =>
                           /\ ~Exists(disk, log'.last.alloc)
                           /\ Exists(disk', log'.last.alloc)
                           /\ disk'[log'.last.alloc] \in
                                 {disk[p], NoteContent(id, remote[id], opts.header)}
                     /\ log'.last.outcome # "skipped" =>
                           /\ q \in log'.written
                           /\ ~Exists(disk, q) \/ q = p
                           /\ disk'[q] = NoteContent(id, remote[id], opts.header)
                     /\ \A f \in MarkdownOf(disk) \ {p} :
                           Exists(disk', f) /\ disk'[f] = disk[f]]_vars

\* C21 witness: a note was renamed to its canonical name, and a later note
\* of the same run with that canonical name was written to another path
C21_Witness ==
    /\ InLoop
    /\ log.last.id # ""
    /\ log.last.outcome # "skipped"
    /\ \E m \in log.renamed :
          /\ m[2] = CanonicalPath(Stem(remote[log.last.id]))
          /\ m[1] # log.last.local_path
          /\ Exists(disk, m[2])
          /\ log.last.path # m[2]
          /\ log.last.path \in log.written
          /\ disk[m[2]] # disk[log.last.path]

====
